---- MODULE Spec2Model ----
(***************************************************************************)
(* A model of griptape's SemanticChunker                                   *)
(* (griptape/chunkers/semantic_chunker.py).                                *)
(*                                                                         *)
(* Texts are sequences of one-character strings.  Distances are integers   *)
(* in hundredths (a cosine distance of 0.15 is 15).  A threshold is kept   *)
(* exactly, as (p + q * sqrt(V)) / d, so that no comparison is rounded.    *)
(***************************************************************************)
EXTENDS Integers, Sequences, FiniteSets, TLC

VARIABLES
    breakpoint_threshold_type,   \* field of the chunker
    breakpoint_threshold_amount, \* field of the chunker: <<amount>>, <<>> before construction
    amount_arg,                  \* the amount passed to the constructor: <<amount>>, <<>> if none
    embedding_driver,            \* which deterministic embedding function is injected
    numpy_empty_percentile,      \* what this numpy build does for np.percentile([])
    pc,                          \* position of the caller / of try_chunk
    text,                        \* argument of the running call
    buffer_size,                 \* argument of _combine_sentences
    sentences,                   \* list[Sentence] of the running call
    distances,                   \* list of distances of the running call
    threshold,                   \* breakpoint_distance_threshold of the running call
    chunks,                      \* the chunk texts try_chunk returned (pc = "done")
    error,                       \* the exception that left the call, or None
    trace,                       \* what the running invocation called: <<callee, argument, outcome>>
    remembered,                  \* an earlier completed invocation and what it returned
    \* the conversation memory test (test_disk_conversation_memory_driver.py)
    mpc,                         \* position of the test
    file,                        \* the memory file: <<>> if absent, <<its text>> otherwise
    memory_runs,                 \* memory.runs
    tasks,                       \* pipeline.tasks: the prompts of its tasks
    new_memory,                  \* what memory_driver.load() returned last: <<>> or <<memory>>
    run_history,                 \* the runs the pipeline has executed: input and output of each
    \* BaseEventListenerDriver
    batched,                     \* field
    batch_size,                  \* field
    batch_timeout,               \* field
    publisher,                   \* whether the subclass's publish methods can raise
    max_workers,                 \* threads of futures_executor
    _batch,                      \* field: the list it refers to, a position in heap
    heap,                        \* the list objects made so far, each with its elements
    _last_batch_time,            \* field
    clock,                       \* time.time()
    queue,                       \* calls submitted to the executor and not yet started
    submitted,                   \* the events publish_event was called with, in order
    workers,                     \* per thread: its position in _safe_try_publish_event and its locals
    published,                   \* the calls of the publish methods, in order
    logged,                      \* number of logger.error calls
    escaped                      \* an exception has left _safe_try_publish_event

chunkerVars == <<breakpoint_threshold_type, breakpoint_threshold_amount, amount_arg,
                 embedding_driver, numpy_empty_percentile, pc, text, buffer_size,
                 sentences, distances, threshold, chunks, error, trace, remembered>>

memoryVars == <<mpc, file, memory_runs, tasks, new_memory, run_history>>

listenerVars == <<batched, batch_size, batch_timeout, publisher, max_workers, _batch, heap,
                  _last_batch_time, clock, queue, submitted, workers, published, logged,
                  escaped>>

\* what the operations of each part leave alone
outsideChunker == <<memoryVars, listenerVars>>
outsideMemory == <<chunkerVars, listenerVars>>
outsideListener == <<chunkerVars, memoryVars>>

vars == <<chunkerVars, memoryVars, listenerVars>>

\* no conversation memory test is running
NoMemoryTest ==
    /\ mpc = "off"
    /\ file = <<>>
    /\ memory_runs = <<>>
    /\ tasks = <<>>
    /\ new_memory = <<>>
    /\ run_history = <<>>

\* no event listener driver exists
NoListener ==
    /\ batched = FALSE
    /\ batch_size = 0
    /\ batch_timeout = 0
    /\ publisher = "reliable"
    /\ max_workers = 0
    /\ _batch = 0
    /\ heap = <<>>
    /\ _last_batch_time = 0
    /\ clock = 0
    /\ queue = <<>>
    /\ submitted = <<>>
    /\ workers = <<>>
    /\ published = <<>>
    /\ logged = 0
    /\ escaped = FALSE

None == "None"

\* ---------------------------------------------------------------- bounds
MaxSentences == 4      \* sentences handed to _combine_sentences(_to_chunks)
MaxBuffer == 2         \* buffer_size handed to _combine_sentences
MaxTextSentences == 3  \* sentences in a text handed to try_chunk
MaxWords == 3          \* words in a text handed to split_into_sentences
MaxRuns == 4           \* pipeline.run() calls in the conversation memory test
MaxTasks == 2          \* tasks added to the pipeline
MaxBatchSize == 2      \* batch_size of the event listener driver
MaxClock == 2          \* ticks of time.time()
MaxEvents == 3         \* publish_event calls
Threads == 2           \* threads of the executor when calls run concurrently
BatchTimeouts == {1, 2}
\* positions a regular-expression scan handles per evaluation step
ScanRun == 12

\* ---------------------------------------------------------------- helpers
Min(a, b) == IF a <= b THEN a ELSE b
Max(a, b) == IF a >= b THEN a ELSE b

RECURSIVE SumSeq(_)
SumSeq(s) == IF s = <<>> THEN 0 ELSE Head(s) + SumSeq(Tail(s))

RECURSIVE SumSquares(_)
SumSquares(s) == IF s = <<>> THEN 0 ELSE Head(s) * Head(s) + SumSquares(Tail(s))

RECURSIVE Insert(_, _)
Insert(x, s) ==
    IF s = <<>> THEN <<x>>
    ELSE IF x <= Head(s) THEN <<x>> \o s
    ELSE <<Head(s)>> \o Insert(x, Tail(s))

RECURSIVE Sorted(_)
Sorted(s) == IF s = <<>> THEN <<>> ELSE Insert(Head(s), Sorted(Tail(s)))

\* Python's " ".join(parts)
RECURSIVE JoinSpace(_)
JoinSpace(parts) ==
    IF parts = <<>> THEN <<>>
    ELSE IF Len(parts) = 1 THEN parts[1]
    ELSE parts[1] \o <<" ">> \o JoinSpace(Tail(parts))

\* Python's s[a:b] on 0-based positions, as a 1-based sequence
Slice(s, a, b) == SubSeq(s, a + 1, Min(b, Len(s)))

\* c * sqrt(V) < r, for integers c, r and V >= 0
SurdLess(c, V, r) ==
    IF c = 0 \/ V = 0 THEN 0 < r
    ELSE IF c > 0 THEN r > 0 /\ c * c * V < r * r
    ELSE r > 0 \/ c * c * V > r * r

\* ---------------------------------------------------------------- configuration
ThresholdTypes == {"percentile", "standard_deviation", "interquartile"}

Amount(n, d) == [num |-> n, den |-> d]

BREAKPOINT_DEFAULTS ==
    [t \in ThresholdTypes |->
        CASE t = "percentile" -> Amount(95, 1)
          [] t = "standard_deviation" -> Amount(3, 1)
          [] t = "interquartile" -> Amount(3, 2)]

\* ---------------------------------------------------------------- thresholds
NoThreshold == [kind |-> "none"]
NaN == [kind |-> "nan"]
Raised(e) == [kind |-> "error", error |-> e]
Number(p, q, V, d) == [kind |-> "num", p |-> p, q |-> q, V |-> V, d |-> d]

\* faulty variant: the percentile without interpolation: the lower of the two closest ranks
PercentileLower(dist, num, den) ==
    LET s  == Sorted(dist)
        lo == ((Len(dist) - 1) * num) \div (100 * den)
    IN  [p |-> s[lo + 1] * 100 * den, d |-> 100 * den]

\* np.percentile(d, num/den) of a non-empty d, linear interpolation between
\* the two closest ranks; the result is p / d
PercentileLinear(dist, num, den) ==
    LET n     == Len(dist)
        s     == Sorted(dist)
        hden  == 100 * den
        hnum  == (n - 1) * num
        lo    == hnum \div hden
        rem   == hnum - lo * hden
        lower == s[lo + 1]
        upper == s[Min(lo + 2, n)]
    IN  [p |-> lower * hden + rem * (upper - lower), d |-> hden]

\* x > threshold, as Python compares floats (nothing exceeds nan)
Exceeds(x, thr) ==
    /\ thr.kind = "num"
    /\ SurdLess(thr.q, thr.V, x * thr.d - thr.p)

\* x == threshold
EqualsThreshold(x, thr) ==
    /\ thr.kind = "num"
    /\ ~ SurdLess(thr.q, thr.V, x * thr.d - thr.p)
    /\ ~ SurdLess(- thr.q, thr.V, thr.p - x * thr.d)

\* np.percentile(distances, amount)
PercentileThreshold(dist, amount, emptyPercentile) ==
    IF amount.num < 0 \/ amount.num > 100 * amount.den THEN Raised("ValueError")
    ELSE IF Len(dist) = 0 THEN
        (IF emptyPercentile = "nan" THEN NaN ELSE Raised("IndexError"))
    ELSE LET P == PercentileLinear(dist, amount.num, amount.den)
         IN  Number(P.p, 0, 0, P.d)

\* faulty variant: np.mean(distances) - amount * np.std(distances)
StandardDeviationBelow(dist, amount) ==
    LET n == Len(dist)
        S == SumSeq(dist)
    IN  IF n = 0 THEN NaN
        ELSE Number(S * amount.den, - amount.num, n * SumSquares(dist) - S * S, n * amount.den)

\* np.mean(distances) + amount * np.std(distances)
StandardDeviationThreshold(dist, amount) ==
    LET n == Len(dist)
        S == SumSeq(dist)
    IN  IF n = 0 THEN NaN
        ELSE Number(S * amount.den, amount.num, n * SumSquares(dist) - S * S, n * amount.den)

\* q1, q3 = np.percentile(distances, [25, 75]); np.mean(distances) + amount * (q3 - q1)
InterquartileThreshold(dist, amount, emptyPercentile) ==
    LET n == Len(dist)
        S == SumSeq(dist)
    IN  IF n = 0 THEN
            (IF emptyPercentile = "nan" THEN NaN ELSE Raised("IndexError"))
        ELSE LET q1 == PercentileLinear(dist, 25, 1)
                 q3 == PercentileLinear(dist, 75, 1)
                 iqr100 == q3.p - q1.p
             IN  Number(S * amount.den * 100 + amount.num * iqr100 * n, 0, 0,
                        n * amount.den * 100)

_calculate_breakpoint_threshold(dist, type, amount, emptyPercentile) ==
    IF type = "percentile" THEN PercentileThreshold(dist, amount, emptyPercentile)
    ELSE IF type = "standard_deviation" THEN StandardDeviationThreshold(dist, amount)
    ELSE IF type = "interquartile" THEN InterquartileThreshold(dist, amount, emptyPercentile)
    ELSE Raised("ValueError")

\* ---------------------------------------------------------------- chunk assembly
\* [i for i, x in enumerate(distances) if x > breakpoint_distance_threshold],
\* 0-based and ascending
RECURSIVE IndicesFrom(_, _, _)
IndicesFrom(dist, thr, i) ==
    IF i >= Len(dist) THEN <<>>
    ELSE (IF Exceeds(dist[i + 1], thr) THEN <<i>> ELSE <<>>) \o IndicesFrom(dist, thr, i + 1)

\* faulty variant: x >= breakpoint_distance_threshold
RECURSIVE IndicesFromOrEqual(_, _, _)
IndicesFromOrEqual(dist, thr, i) ==
    IF i >= Len(dist) THEN <<>>
    ELSE (IF Exceeds(dist[i + 1], thr) \/ EqualsThreshold(dist[i + 1], thr)
          THEN <<i>> ELSE <<>>) \o IndicesFromOrEqual(dist, thr, i + 1)

indices_at_or_above_thresh(dist, thr) == IndicesFromOrEqual(dist, thr, 0)

indices_above_thresh(dist, thr) == IndicesFrom(dist, thr, 0)

\* faulty variant: start_index = index, so that a group starts with the sentence the last one ended with
RECURSIVE GroupsLoopOverlapping(_, _, _)
GroupsLoopOverlapping(sents, indices, start_index) ==
    IF indices = <<>> THEN
        IF start_index < Len(sents)
        THEN <<Slice(sents, start_index, Len(sents))>>
        ELSE <<>>
    ELSE LET index == Head(indices)
         IN  <<Slice(sents, start_index, index + 1)>>
                 \o GroupsLoopOverlapping(sents, Tail(indices), index)

\* the loop over the breakpoints: the groups of sentences it slices
RECURSIVE GroupsLoop(_, _, _)
GroupsLoop(sents, indices, start_index) ==
    IF indices = <<>> THEN
        IF start_index < Len(sents)
        THEN <<Slice(sents, start_index, Len(sents))>>
        ELSE <<>>
    ELSE LET index == Head(indices)
         IN  <<Slice(sents, start_index, index + 1)>>
                 \o GroupsLoop(sents, Tail(indices), index + 1)

ChunkGroups(dist, sents, thr) == GroupsLoop(sents, indices_above_thresh(dist, thr), 0)

\* " ".join([d.sentence.value for d in group])
GroupText(group) == JoinSpace([k \in 1..Len(group) |-> group[k].sentence])

\* the chunks _combine_sentences_to_chunks returns for a threshold that was computed
GroupTexts(g) == [k \in 1..Len(g) |-> GroupText(g[k])]

\* faulty variant: the list of chunks is kept from one call to the next
ChunksOfAccumulating(dist, sents, thr) ==
    remembered.chunks \o GroupTexts(ChunkGroups(dist, sents, thr))

ChunksOf(dist, sents, thr) == GroupTexts(ChunkGroups(dist, sents, thr))

\* ---------------------------------------------------------------- regular expressions
\* The text being split is a sequence of one-character strings; the markers
\* "<prd>" and "<stop>" are single elements of it (the inputs hold no "<").
PRD == "<prd>"
STOP == "<stop>"
\* the one character U+201D, the right double quotation mark
RDQUO == "rdquo"

Upper == {"A", "B", "C", "D", "E", "F", "G", "H", "I", "J", "K", "L", "M",
          "N", "O", "P", "Q", "R", "S", "T", "U", "V", "W", "X", "Y", "Z"}
Lower == {"a", "b", "c", "d", "e", "f", "g", "h", "i", "j", "k", "l", "m",
          "n", "o", "p", "q", "r", "s", "t", "u", "v", "w", "x", "y", "z"}
Digit == {"0", "1", "2", "3", "4", "5", "6", "7", "8", "9"}
Whitespace == {" ", "\n"}

\* pattern elements: one character of a class, or the first of some words that
\* lets the rest of the pattern match (Python's ordered alternation); grp is the
\* number of the group the element belongs to, 0 for none
Cls(set, g) == [kind |-> "class", set |-> set, alts |-> <<>>, grp |-> g]
\* two or more characters of a class, as many as there are (the pattern's last element)
Run2(set, g) == [kind |-> "run2", set |-> set, alts |-> <<>>, grp |-> g]
Alt(words, g) == [kind |-> "alts", set |-> {}, alts |-> words, grp |-> g]
Lit(word) == Alt(<<word>>, 0)

NoGroups == <<<<>>, <<>>, <<>>>>
NoMatch == [ok |-> FALSE, end |-> 0, groups |-> NoGroups]

\* the match r, or if it failed the next attempt
OrElse(r, next) == IF r.ok THEN r ELSE next

Capture(groups, g, matched) ==
    IF g = 0 THEN groups ELSE [groups EXCEPT ![g] = @ \o matched]

\* length of the run of characters of set that starts at pos
RECURSIVE RunLength(_, _, _)
RunLength(t, pos, set) ==
    IF pos <= Len(t) /\ t[pos] \in set THEN 1 + RunLength(t, pos + 1, set) ELSE 0

RECURSIVE MatchFrom(_, _, _, _, _)
RECURSIVE TryAlts(_, _, _, _, _, _)
\* match elements k.. of pat against t from position pos
MatchFrom(pat, k, t, pos, groups) ==
    IF k > Len(pat) THEN [ok |-> TRUE, end |-> pos, groups |-> groups]
    ELSE IF pat[k].kind = "class" THEN
        IF pos <= Len(t) /\ t[pos] \in pat[k].set
        THEN MatchFrom(pat, k + 1, t, pos + 1, Capture(groups, pat[k].grp, <<t[pos]>>))
        ELSE NoMatch
    ELSE IF pat[k].kind = "run2" THEN
        LET n == RunLength(t, pos, pat[k].set)
        IN  IF n >= 2
            THEN MatchFrom(pat, k + 1, t, pos + n,
                           Capture(groups, pat[k].grp, SubSeq(t, pos, pos + n - 1)))
            ELSE NoMatch
    ELSE TryAlts(pat, k, t, pos, groups, 1)

TryAlts(pat, k, t, pos, groups, j) ==
    IF j > Len(pat[k].alts) THEN NoMatch
    ELSE LET w    == pat[k].alts[j]
             last == pos + Len(w) - 1
         IN  IF last <= Len(t) /\ SubSeq(t, pos, last) = w
             THEN OrElse(MatchFrom(pat, k + 1, t, last + 1, Capture(groups, pat[k].grp, w)),
                         TryAlts(pat, k, t, pos, groups, j + 1))
             ELSE TryAlts(pat, k, t, pos, groups, j + 1)

\* the first of the patterns pats (in order) that matches at pos
RECURSIVE MatchAny(_, _, _, _)
MatchAny(pats, n, t, pos) ==
    IF n > Len(pats) THEN NoMatch
    ELSE OrElse(MatchFrom(pats[n], 1, t, pos, NoGroups), MatchAny(pats, n + 1, t, pos))

\* a replacement template: literal pieces and group references
G(n) == [grp |-> n, lit |-> <<>>, each |-> FALSE]
L(word) == [grp |-> 0, lit |-> word, each |-> FALSE]
\* word * len(group n)
Times(word, n) == [grp |-> n, lit |-> word, each |-> TRUE]

RECURSIVE Repeat(_, _)
Repeat(word, n) == IF n = 0 THEN <<>> ELSE word \o Repeat(word, n - 1)

RECURSIVE Expand(_, _)
Expand(tmpl, groups) ==
    IF tmpl = <<>> THEN <<>>
    ELSE (IF Head(tmpl).grp = 0 THEN Head(tmpl).lit
          ELSE IF Head(tmpl).each THEN Repeat(Head(tmpl).lit, Len(groups[Head(tmpl).grp]))
          ELSE groups[Head(tmpl).grp])
             \o Expand(Tail(tmpl), groups)

\* re.sub(pattern, template, t): leftmost matches, left to right, not overlapping.
\* The scan is evaluated a run of ScanRun positions at a time.
ScanStep(tmpl, t, pos, m) ==
    IF m.ok THEN [out |-> Expand(tmpl, m.groups), pos |-> m.end]
    ELSE [out |-> <<t[pos]>>, pos |-> pos + 1]

Then(out, rest) == [out |-> out \o rest.out, pos |-> rest.pos]

RECURSIVE SubRun(_, _, _, _, _)
SubRunFrom(pats, tmpl, t, k, step) ==
    Then(step.out, SubRun(pats, tmpl, t, step.pos, k - 1))

SubRun(pats, tmpl, t, pos, k) ==
    IF pos > Len(t) \/ k = 0 THEN [out |-> <<>>, pos |-> pos]
    ELSE SubRunFrom(pats, tmpl, t, k, ScanStep(tmpl, t, pos, MatchAny(pats, 1, t, pos)))

RECURSIVE SubFrom(_, _, _, _)
SubFromRun(pats, tmpl, t, run) == run.out \o SubFrom(pats, tmpl, t, run.pos)

SubFrom(pats, tmpl, t, pos) ==
    IF pos > Len(t) THEN <<>>
    ELSE SubFromRun(pats, tmpl, t, SubRun(pats, tmpl, t, pos, ScanRun))

ReSub(pats, tmpl, t) == SubFrom(pats, tmpl, t, 1)

\* str.replace(old, new)
Replace(t, old, new) == ReSub(<<<<Lit(old)>>>>, <<L(new)>>, t)

\* old in t
Contains(t, old) ==
    \E pos \in 1..Len(t) : /\ pos + Len(old) - 1 <= Len(t)
                           /\ SubSeq(t, pos, pos + Len(old) - 1) = old

\* if needle in t: t = t.replace(old, new)
ReplaceIfContains(t, needle, old, new) ==
    IF Contains(t, needle) THEN Replace(t, old, new) ELSE t

\* str.split(sep) for a one-element separator: the pieces between consecutive separators
SepPositions(t, sep) == {i \in 1..Len(t) : t[i] = sep}

NthSep(t, sep, n) ==
    IF n = 0 THEN 0
    ELSE IF n > Cardinality(SepPositions(t, sep)) THEN Len(t) + 1
    ELSE CHOOSE i \in SepPositions(t, sep) :
             Cardinality({j \in SepPositions(t, sep) : j < i}) = n - 1

SplitOn(t, sep) ==
    [n \in 1..(Cardinality(SepPositions(t, sep)) + 1) |->
        SubSeq(t, NthSep(t, sep, n - 1) + 1, NthSep(t, sep, n) - 1)]

\* str.strip()
RECURSIVE LStrip(_)
LStrip(t) == IF t # <<>> /\ Head(t) \in Whitespace THEN LStrip(Tail(t)) ELSE t

RECURSIVE RStrip(_)
RStrip(t) ==
    IF t # <<>> /\ t[Len(t)] \in Whitespace THEN RStrip(SubSeq(t, 1, Len(t) - 1)) ELSE t

Strip(t) == RStrip(LStrip(t))

\* ---------------------------------------------------------------- the sentence splitter
alphabets == Upper \cup Lower
prefixes == <<<<"M", "r">>, <<"S", "t">>, <<"M", "r", "s">>, <<"M", "s">>, <<"D", "r">>>>
suffixes == <<<<"I", "n", "c">>, <<"L", "t", "d">>, <<"J", "r">>, <<"S", "r">>, <<"C", "o">>>>
starters ==
    <<<<"M", "r">>, <<"M", "r", "s">>, <<"M", "s">>,
      <<"D", "r">>, <<"P", "r", "o", "f">>, <<"C", "a", "p", "t">>,
      <<"C", "p", "t">>, <<"L", "t">>, <<"H", "e", " ">>,
      <<"S", "h", "e", " ">>, <<"I", "t", " ">>, <<"T", "h", "e", "y", " ">>,
      <<"T", "h", "e", "i", "r", " ">>, <<"O", "u", "r", " ">>, <<"W", "e", " ">>,
      <<"B", "u", "t", " ">>, <<"H", "o", "w", "e", "v", "e", "r", " ">>, <<"T", "h", "a", "t", " ">>,
      <<"T", "h", "i", "s", " ">>, <<"W", "h", "e", "r", "e", "v", "e", "r">>>>
websites == <<<<"c", "o", "m">>, <<"n", "e", "t">>, <<"o", "r", "g">>, <<"i", "o">>, <<"g", "o", "v">>, <<"e", "d", "u">>, <<"m", "e">>>>

SplitProtect1(t0) ==
    LET t1 == <<" ">> \o t0 \o <<" ", " ">>
        t2 == ReSub(<<<<Lit(<<"\n">>)>>>>, <<L(<<" ">>)>>, t1)
        t3 == ReSub(<<<<Alt(prefixes, 1), Lit(<<".">>)>>>>, <<G(1), L(<<PRD>>)>>, t2)
        t4 == ReSub(<<<<Lit(<<".">>), Alt(websites, 1)>>>>, <<L(<<PRD>>), G(1)>>, t3)
        t5 == ReSub(<<<<Cls(Digit, 1), Lit(<<".">>), Cls(Digit, 2)>>>>,
                    <<G(1), L(<<PRD>>), G(2)>>, t4)
        t6 == ReSub(<<<<Run2({"."}, 1)>>>>, <<Times(<<PRD>>, 1), L(<<STOP>>)>>, t5)
        t7 == ReplaceIfContains(t6, <<"P", "h", ".", "D">>,
                                <<"P", "h", ".", "D", ".">>, <<"P", "h", PRD, "D", PRD>>)
    IN  t7

SplitProtect2(t7) ==
    LET t8 == ReSub(<<<<Cls(Whitespace, 0), Cls(alphabets, 1), Lit(<<".", " ">>)>>>>,
                    <<L(<<" ">>), G(1), L(<<PRD, " ">>)>>, t7)
        \* acronyms + " " + starters, with and without the optional third letter
        t9 == ReSub(<<
                  <<Cls(Upper, 1), Alt(<<<<".">>>>, 1), Cls(Upper, 1), Alt(<<<<".">>>>, 1),
                    Cls(Upper, 1), Alt(<<<<".">>>>, 1), Lit(<<" ">>), Alt(starters, 2)>>,
                  <<Cls(Upper, 1), Alt(<<<<".">>>>, 1), Cls(Upper, 1), Alt(<<<<".">>>>, 1),
                    Lit(<<" ">>), Alt(starters, 2)>> >>,
                  <<G(1), L(<<STOP, " ">>), G(2)>>, t8)
        t10 == ReSub(<<<<Cls(alphabets, 1), Lit(<<".">>), Cls(alphabets, 2), Lit(<<".">>),
                         Cls(alphabets, 3), Lit(<<".">>)>>>>,
                     <<G(1), L(<<PRD>>), G(2), L(<<PRD>>), G(3), L(<<PRD>>)>>, t9)
        t11 == ReSub(<<<<Cls(alphabets, 1), Lit(<<".">>), Cls(alphabets, 2), Lit(<<".">>)>>>>,
                     <<G(1), L(<<PRD>>), G(2), L(<<PRD>>)>>, t10)
        t12 == ReSub(<<<<Lit(<<" ">>), Alt(suffixes, 1), Lit(<<".", " ">>), Alt(starters, 2)>>>>,
                     <<L(<<" ">>), G(1), L(<<STOP, " ">>), G(2)>>, t11)
        t13 == ReSub(<<<<Lit(<<" ">>), Alt(suffixes, 1), Lit(<<".">>)>>>>,
                     <<L(<<" ">>), G(1), L(<<PRD>>)>>, t12)
        t14 == ReSub(<<<<Lit(<<" ">>), Cls(alphabets, 1), Lit(<<".">>)>>>>,
                     <<L(<<" ">>), G(1), L(<<PRD>>)>>, t13)
    IN  t14

SplitMark(t14) ==
    LET t15 == ReplaceIfContains(t14, <<RDQUO>>, <<".", RDQUO>>, <<RDQUO, ".">>)
        t16 == ReplaceIfContains(t15, <<"\"">>, <<".", "\"">>, <<"\"", ".">>)
        t17 == ReplaceIfContains(t16, <<"!">>, <<"!", "\"">>, <<"\"", "!">>)
        t18 == ReplaceIfContains(t17, <<"?">>, <<"?", "\"">>, <<"\"", "?">>)
        t19 == Replace(t18, <<".">>, <<".", STOP>>)
        t20 == Replace(t19, <<"?">>, <<"?", STOP>>)
        t21 == Replace(t20, <<"!">>, <<"!", STOP>>)
        t22 == Replace(t21, <<PRD>>, <<".">>)
    IN  t22

\* the text with its "<stop>" markers, just before it is split
MarkedText(t) == SplitMark(SplitProtect2(SplitProtect1(t)))

\* [s.strip() for s in sentences]
StripAll(pieces) == [k \in 1..Len(pieces) |-> Strip(pieces[k])]

\* if sentences and not sentences[-1]: sentences = sentences[:-1]
DropLastIfEmpty(pieces) ==
    IF pieces # <<>> /\ pieces[Len(pieces)] = <<>>
    THEN SubSeq(pieces, 1, Len(pieces) - 1)
    ELSE pieces

split_into_sentences(t) == DropLastIfEmpty(StripAll(SplitOn(MarkedText(t), STOP)))

\* ---------------------------------------------------------------- sentences
NewSentence(value, index) ==
    [sentence |-> value, index |-> index, combined_sentence |-> <<>>,
     embedding |-> <<>>, distance_to_next |-> <<>>]

\* [Sentence(sentence=TextArtifact(sentence), index=index) for index, sentence in ...]
AsSentences(values) == [k \in 1..Len(values) |-> NewSentence(values[k], k - 1)]

_text_to_sentences(t) == AsSentences(split_into_sentences(t))

\* for j in range(lo, i): if j >= 0: combined_sentence += sentences[j] + " "
RECURSIVE SentencesBefore(_, _, _)
SentencesBefore(sents, j, i) ==
    IF j >= i THEN <<>>
    ELSE (IF j >= 0 THEN sents[j + 1].sentence \o <<" ">> ELSE <<>>)
             \o SentencesBefore(sents, j + 1, i)

\* for j in range(lo, hi): if j < len(sentences): combined_sentence += " " + sentences[j]
RECURSIVE SentencesAfter(_, _, _)
SentencesAfter(sents, j, hi) ==
    IF j >= hi THEN <<>>
    ELSE (IF j < Len(sents) THEN <<" ">> \o sents[j + 1].sentence ELSE <<>>)
             \o SentencesAfter(sents, j + 1, hi)

\* faulty variant: range(i + 1, i + buffer): the window misses its last sentence
CombinedSentenceShort(sents, i, buffer) ==
    SentencesBefore(sents, i - buffer, i)
        \o sents[i + 1].sentence
        \o SentencesAfter(sents, i + 1, i + buffer)

CombinedSentence(sents, i, buffer) ==
    SentencesBefore(sents, i - buffer, i)
        \o sents[i + 1].sentence
        \o SentencesAfter(sents, i + 1, i + 1 + buffer)

_combine_sentences(sents, buffer) ==
    [k \in 1..Len(sents) |->
        [sents[k] EXCEPT !.combined_sentence = <<CombinedSentence(sents, k - 1, buffer)>>]]

Values(sents) == [k \in 1..Len(sents) |-> sents[k].sentence]
Indices(sents) == [k \in 1..Len(sents) |-> sents[k].index]

\* ---------------------------------------------------------------- embeddings and distances
EmbeddingDrivers == {"by_length"}

Vectors == <<<<1, 0>>, <<0, 1>>, <<3, 4>>, <<4, 3>>>>

\* the injected embedding function: a fixed mapping from a text to a vector
Embed(driver, t) ==
    IF driver = "by_length" THEN Vectors[(Len(t) % Len(Vectors)) + 1]
    ELSE Vectors[1]

Dot(a, b) == a[1] * b[1] + a[2] * b[2]

\* numpy.linalg.norm, exact for the vectors above
Norm(a) == CHOOSE r \in 0..(Dot(a, a)) : r * r = Dot(a, a)

\* 1 - np.dot(a, b) / (norm(a) * norm(b)), in hundredths
CosineDistance(a, b) == 100 - (100 * Dot(a, b)) \div (Norm(a) * Norm(b))

\* faulty variant: embedding_current is always the first window's
CosineDistancesToFirst(sents) ==
    [i \in 1..(IF sents = <<>> THEN 0 ELSE Len(sents) - 1) |->
        CosineDistance(sents[1].embedding, sents[i + 1].embedding)]

\* the list of distances _calculate_cosine_distances returns
CosineDistances(sents) ==
    [i \in 1..(IF sents = <<>> THEN 0 ELSE Len(sents) - 1) |->
        CosineDistance(sents[i].embedding, sents[i + 1].embedding)]

\* and the sentences it returns, with distance_to_next set
WithDistances(sents) ==
    [k \in 1..Len(sents) |->
        IF k < Len(sents)
        THEN [sents[k] EXCEPT !.distance_to_next = <<CosineDistances(sents)[k]>>]
        ELSE sents[k]]

\* ---------------------------------------------------------------- inputs
\* all sequences over a set, up to a length
SeqsUpTo(S, n) == UNION {[1..k -> S] : k \in 0..n}

Amounts(type) ==
    IF type = "percentile"
    THEN {Amount(0, 1), Amount(25, 1), Amount(50, 1), Amount(95, 1), Amount(100, 1)}
    ELSE {Amount(-1, 1), Amount(0, 1), Amount(3, 2), Amount(3, 1)}

\* the sentences try_chunk is called with, and the texts made of them
SentencePool == {<<"a", "b", ".">>, <<"b", "c", "d", ".">>}
InputTexts == {JoinSpace(s) : s \in SeqsUpTo(SentencePool, MaxTextSentences)}

\* raw sentence values for the calls of _combine_sentences(_to_chunks)
SentenceValues == {<<"a", ".">>, <<"b", " ", "c", ".">>}
SentenceLists ==
    {[k \in 1..Len(v) |-> NewSentence(v[k], k - 1)] : v \in SeqsUpTo(SentenceValues, MaxSentences)}

DistanceValues == {10, 15, 90}

\* ================================================================ try_chunk
Idle == pc \in {"idle", "done", "error"}

NoRemembered == [set |-> FALSE, text |-> <<>>, chunks |-> <<>>]

Init ==
    /\ NoListener
    /\ NoMemoryTest
    /\ breakpoint_threshold_type \in ThresholdTypes \cup {"other"}
    /\ amount_arg \in {<<>>, <<Amount(50, 1)>>}
    /\ breakpoint_threshold_amount = <<>>
    /\ embedding_driver \in EmbeddingDrivers
    \* only the percentile and interquartile methods call np.percentile
    /\ numpy_empty_percentile \in
           IF breakpoint_threshold_type \in {"percentile", "interquartile"}
           THEN {"nan", "IndexError"} ELSE {"nan"}
    /\ pc = "new"
    /\ text = <<>>
    /\ buffer_size = 1
    /\ sentences = <<>>
    /\ distances = <<>>
    /\ threshold = NoThreshold
    /\ chunks = <<>>
    /\ error = None
    /\ trace = <<>>
    /\ remembered = NoRemembered

config == <<breakpoint_threshold_type, breakpoint_threshold_amount, amount_arg,
            embedding_driver, numpy_empty_percentile>>

\* SemanticChunker(...): the attrs defaults are computed
Construct ==
    /\ pc = "new"
    /\ IF amount_arg # <<>>
       THEN /\ breakpoint_threshold_amount' = amount_arg
            /\ pc' = "idle"
            /\ error' = None
       ELSE IF breakpoint_threshold_type \in DOMAIN BREAKPOINT_DEFAULTS
       THEN /\ breakpoint_threshold_amount' = <<BREAKPOINT_DEFAULTS[breakpoint_threshold_type]>>
            /\ pc' = "idle"
            /\ error' = None
       ELSE /\ breakpoint_threshold_amount' = <<>>
            /\ pc' = "failed"
            /\ error' = "KeyError"
    /\ UNCHANGED outsideChunker
    /\ UNCHANGED <<breakpoint_threshold_type, amount_arg, embedding_driver,
                   numpy_empty_percentile, text, buffer_size, sentences, distances,
                   threshold, chunks, trace, remembered>>

\* a caller calls try_chunk(t); it may keep what the call before returned
TryChunk(t) ==
    /\ Idle
    /\ text' = t
    /\ \/ remembered' = remembered
       \/ /\ pc = "done"
          /\ remembered' = [set |-> TRUE, text |-> text, chunks |-> chunks]
    /\ pc' = "call"
    /\ sentences' = <<>>
    /\ distances' = <<>>
    /\ threshold' = NoThreshold
    /\ chunks' = <<>>
    /\ error' = None
    /\ trace' = <<>>
    /\ buffer_size' = 1
    /\ UNCHANGED outsideChunker
    /\ UNCHANGED config

\* sentences = self._text_to_sentences(text)
TextToSentences ==
    /\ pc = "call"
    /\ sentences' = _text_to_sentences(text)
    /\ pc' = "combine"
    /\ UNCHANGED outsideChunker
    /\ UNCHANGED <<config, text, buffer_size, distances, threshold, chunks, error, trace,
                   remembered>>

\* combined_sentences = self._combine_sentences(sentences)
CombineSentences ==
    /\ pc = "combine"
    /\ sentences' = _combine_sentences(sentences, buffer_size)
    /\ pc' = "embed"
    /\ UNCHANGED outsideChunker
    /\ UNCHANGED <<config, text, buffer_size, distances, threshold, chunks, error, trace,
                   remembered>>

\* the sentences _embed_sentences has still to embed
NotEmbedded == {k \in 1..Len(sentences) : sentences[k].embedding = <<>>}
NextToEmbed == CHOOSE k \in NotEmbedded : \A j \in NotEmbedded : k <= j

\* faulty variant: the provider's exception is caught and the loop goes on
EmbedSentenceStepSwallowing(k, ok) ==
    /\ trace' = Append(trace, <<"embed", sentences[k].index, IF ok THEN "ok" ELSE "raised">>)
    /\ sentences' = [sentences EXCEPT
                        ![k].embedding = IF ok THEN Embed(embedding_driver,
                                                          sentences[k].combined_sentence[1])
                                         ELSE Vectors[1]]
    /\ UNCHANGED <<pc, error>>

\* one turn of the loop of _embed_sentences; the provider returns a vector or raises
EmbedSentenceStep(k, ok) ==
    /\ trace' = Append(trace, <<"embed", sentences[k].index, IF ok THEN "ok" ELSE "raised">>)
    /\ IF ok
       THEN /\ sentences' = [sentences EXCEPT
                                ![k].embedding = Embed(embedding_driver,
                                                       sentences[k].combined_sentence[1])]
            /\ UNCHANGED <<pc, error>>
       ELSE /\ pc' = "error"
            /\ error' = "EmbeddingProviderFailure"
            /\ UNCHANGED sentences

EmbedSentence ==
    /\ pc = "embed"
    /\ NotEmbedded # {}
    /\ \E ok \in BOOLEAN : EmbedSentenceStep(NextToEmbed, ok)
    /\ UNCHANGED outsideChunker
    /\ UNCHANGED <<config, text, buffer_size, distances, threshold, chunks, remembered>>

\* distances, sentences_with_distances = self._calculate_cosine_distances(embedded_sentences)
CalculateCosineDistances ==
    /\ pc = "embed"
    /\ NotEmbedded = {}
    /\ distances' = CosineDistances(sentences)
    /\ sentences' = WithDistances(sentences)
    /\ pc' = "assemble"
    /\ UNCHANGED outsideChunker
    /\ UNCHANGED <<config, text, buffer_size, threshold, chunks, error, trace, remembered>>

\* chunks = self._combine_sentences_to_chunks(distances, sentences_with_distances)
\* the rest of _combine_sentences_to_chunks, once the threshold call has ended
AssembleWith(thr) ==
    /\ trace' = Append(trace, <<"threshold", Len(distances),
                                IF thr.kind = "error" THEN "raised" ELSE "ok">>)
    /\ IF thr.kind = "error"
       THEN /\ pc' = "error"
            /\ error' = thr.error
            /\ UNCHANGED <<threshold, chunks>>
       ELSE /\ threshold' = thr
            /\ chunks' = ChunksOf(distances, sentences, thr)
            /\ pc' = "done"
            /\ UNCHANGED error

CombineSentencesToChunks ==
    /\ pc = "assemble"
    /\ AssembleWith(_calculate_breakpoint_threshold(distances, breakpoint_threshold_type,
                                                    breakpoint_threshold_amount[1],
                                                    numpy_empty_percentile))
    /\ UNCHANGED outsideChunker
    /\ UNCHANGED <<config, text, buffer_size, sentences, distances, remembered>>

Next ==
    \/ Construct
    \/ \E t \in InputTexts : TryChunk(t)
    \/ TextToSentences
    \/ CombineSentences
    \/ EmbedSentence
    \/ CalculateCosineDistances
    \/ CombineSentencesToChunks

Spec == Init /\ [][Next]_vars

\* ---------------------------------------------------------------- the claims about try_chunk
EmbedCalls == Cardinality({j \in 1..Len(trace) : trace[j][1] = "embed"})

Split == pc \in {"combine", "embed", "assemble", "done", "error"}

\* C3 as it was claimed: with N <= 1 sentences and a valid method try_chunk
\* ends without a numeric error and without evaluating the threshold on an
\* empty list of distances, and returns the N sentences as the chunks.
C3_Degenerate ==
    (Split /\ Len(sentences) <= 1 /\ breakpoint_threshold_type \in ThresholdTypes) =>
        /\ \A j \in 1..Len(trace) : trace[j][1] # "threshold"
        /\ error \in {None, "EmbeddingProviderFailure"}
        /\ pc = "done" => chunks = Values(sentences)

\* C4 as it was claimed: with a method that is none of the three the operation
\* never returns chunks, and when its configuration error is raised the
\* embedding provider has not been called.
C4_FailFast ==
    breakpoint_threshold_type \notin ThresholdTypes =>
        /\ pc # "done"
        /\ error \in {"KeyError", "ValueError"} => EmbedCalls = 0

\* C5: once the provider has raised on a window the call has ended with that
\* error and has returned no chunks; the windows were embedded in index order,
\* each once, the failing one last; and the ended call embeds nothing more.
C5_AllOrNothing ==
    /\ []((\E j \in 1..Len(trace) : trace[j][3] = "raised" /\ trace[j][1] = "embed") =>
            /\ pc = "error"
            /\ error = "EmbeddingProviderFailure"
            /\ chunks = <<>>
            /\ \A j \in 1..Len(trace) :
                   trace[j] = <<"embed", j - 1, IF j = Len(trace) THEN "raised" ELSE "ok">>)
    /\ [][pc = "error" => (pc' = "call" \/ (pc' = "error" /\ trace' = trace))]_vars

\* the provider raised on window 1 of 3
C5_Witness ==
    /\ pc = "error"
    /\ error = "EmbeddingProviderFailure"
    /\ Len(sentences) = 3
    /\ trace = <<<<"embed", 0, "ok">>, <<"embed", 1, "raised">>>>

\* C10: a call that returns chunks for a text for which an earlier call on the
\* same chunker returned chunks returns the same chunks.
C10_Deterministic ==
    (pc = "done" /\ remembered.set /\ remembered.text = text) =>
        chunks = remembered.chunks

C10_Witness ==
    /\ pc = "done"
    /\ remembered.set
    /\ remembered.text = text
    /\ Len(chunks) >= 2


\* the distances of the running call have been computed
DistancesComputed ==
    \/ pc \in {"assemble", "done"}
    \/ pc = "error" /\ error # "EmbeddingProviderFailure"

\* C12: while windows are being embedded no distance exists; once the distances
\* of N >= 2 sentences are computed, the provider was called once per window in
\* index order, every unit carries the embedding of its own window, there are
\* N-1 distances, distance i is the cosine distance of the embeddings of
\* windows i and i+1 and is the distance_to_next of unit i, and the last unit
\* has no distance_to_next.
C12_Distances ==
    /\ pc = "embed" =>
           /\ distances = <<>>
           /\ \A k \in 1..Len(sentences) : sentences[k].distance_to_next = <<>>
    /\ (DistancesComputed /\ Len(sentences) >= 2) =>
           /\ EmbedCalls = Len(sentences)
           /\ \A k \in 1..Len(sentences) :
                  /\ trace[k] = <<"embed", k - 1, "ok">>
                  /\ sentences[k].index = k - 1
                  /\ sentences[k].embedding =
                         Embed(embedding_driver, sentences[k].combined_sentence[1])
           /\ Len(distances) = Len(sentences) - 1
           /\ \A i \in 1..(Len(sentences) - 1) :
                  /\ distances[i] = CosineDistance(sentences[i].embedding,
                                                    sentences[i + 1].embedding)
                  /\ sentences[i].distance_to_next = <<distances[i]>>
           /\ sentences[Len(sentences)].distance_to_next = <<>>

\* three sentences, two different distances
C12_Witness ==
    /\ pc = "assemble"
    /\ Len(sentences) = 3
    /\ Len(distances) = 2
    /\ distances[1] # distances[2]
    /\ sentences[1].distance_to_next = <<distances[1]>>

\* ================================================================ _combine_sentences_to_chunks
\* A call of _combine_sentences_to_chunks(distances, sentences) with any N
\* sentences and any N - 1 distances, on a chunker with a valid configuration.
DistanceLists(n) == [1..(IF n = 0 THEN 0 ELSE n - 1) -> DistanceValues]

WithDistanceList(sents, dist) ==
    [k \in 1..Len(sents) |->
        IF k < Len(sents) THEN [sents[k] EXCEPT !.distance_to_next = <<dist[k]>>]
        ELSE sents[k]]

InitChunks ==
    /\ NoListener
    /\ NoMemoryTest
    /\ breakpoint_threshold_type \in ThresholdTypes
    /\ breakpoint_threshold_amount \in {<<a>> : a \in Amounts(breakpoint_threshold_type)}
    /\ amount_arg = breakpoint_threshold_amount
    /\ embedding_driver = "by_length"
    /\ numpy_empty_percentile \in {"nan", "IndexError"}
    /\ pc = "assemble"
    /\ text = <<>>
    /\ buffer_size = 1
    /\ \E raw \in SentenceLists :
           /\ distances \in DistanceLists(Len(raw))
           /\ sentences = WithDistanceList(_combine_sentences(raw, buffer_size), distances)
    /\ threshold = NoThreshold
    /\ chunks = <<>>
    /\ error = None
    /\ trace = <<>>
    /\ remembered = NoRemembered

NextChunks == CombineSentencesToChunks

SpecChunks == InitChunks /\ [][NextChunks]_vars

\* ---------------------------------------------------------------- the claims about the chunks
RECURSIVE Concat(_)
Concat(ss) == IF ss = <<>> THEN <<>> ELSE Head(ss) \o Concat(Tail(ss))

\* the groups of sentences behind the chunks that were returned
Groups == ChunkGroups(distances, sentences, threshold)

\* the 0-based indices i whose distance exceeds the threshold
Breakpoints ==
    {i \in 0..(Len(distances) - 1) : Exceeds(distances[i + 1], threshold)}

\* the index of the last sentence of each group
GroupEnds == {Groups[k][Len(Groups[k])].index : k \in 1..Len(Groups)}

\* C1: the chunks returned for N >= 1 sentences are runs of sentences that are
\* not empty, follow each other without gap or overlap and cover 0..N-1 in
\* order; each chunk is the space-joined text of its run, and space-joining the
\* chunks gives the space-joined sentences.
C1_Partition ==
    (pc = "done" /\ Len(sentences) >= 1) =>
        /\ Len(chunks) = Len(Groups)
        /\ \A k \in 1..Len(Groups) : Groups[k] # <<>>
        /\ Concat([k \in 1..Len(Groups) |-> Indices(Groups[k])])
               = [i \in 1..Len(sentences) |-> i - 1]
        /\ \A k \in 1..Len(Groups) : chunks[k] = JoinSpace(Values(Groups[k]))
        /\ JoinSpace(chunks) = JoinSpace(Values(sentences))

C1_Witness ==
    /\ pc = "done"
    /\ Len(sentences) = MaxSentences
    /\ Len(chunks) = 2
    /\ Len(Groups[1]) = 2

\* C2: for N >= 2 sentences a chunk ends after sentence i < N-1 exactly when
\* distances[i] is strictly greater than the threshold (never when it is equal);
\* the chunks are the intervals between consecutive breakpoints, k + 1 of them
\* for k breakpoints, and one chunk holding everything when there is none.
C2_Breakpoints ==
    (pc = "done" /\ Len(sentences) >= 2) =>
        /\ GroupEnds \ {Len(sentences) - 1} = Breakpoints
        /\ \A i \in 0..(Len(distances) - 1) :
               EqualsThreshold(distances[i + 1], threshold) => i \notin GroupEnds
        /\ Len(chunks) = Cardinality(Breakpoints) + 1
        /\ \A k \in 1..Len(Groups) :
               /\ Groups[k] # <<>>
               /\ Groups[k][1].index = IF k = 1 THEN 0
                                       ELSE Groups[k - 1][Len(Groups[k - 1])].index + 1
               /\ \A j \in 1..Len(Groups[k]) : Groups[k][j].index = Groups[k][1].index + j - 1
        /\ Len(sentences) - 1 \in GroupEnds
        /\ Breakpoints = {} => chunks = <<JoinSpace(Values(sentences))>>

\* a cut at one distance, none at another that equals the threshold
C2_Witness ==
    /\ pc = "done"
    /\ Len(chunks) = 2
    /\ \E i \in 0..(Len(distances) - 1) : EqualsThreshold(distances[i + 1], threshold)

\* a <= b for amounts
AmountLeq(a, b) == a.num * b.den <= b.num * a.den

\* t1 <= t2 for two thresholds over the same distances
ThresholdLeq(t1, t2) ==
    ~ SurdLess(t1.d * t2.q - t2.d * t1.q, t1.V, t2.d * t1.p - t1.d * t2.p)

ThresholdFor(amount) ==
    _calculate_breakpoint_threshold(distances, breakpoint_threshold_type, amount,
                                    numpy_empty_percentile)

\* C6: for the same distances and method, no amount above the configured one
\* gives a lower threshold (where the threshold is a number) or more chunks.
C6_Monotone ==
    pc = "done" =>
        \A a2 \in Amounts(breakpoint_threshold_type) :
            AmountLeq(breakpoint_threshold_amount[1], a2) =>
                /\ ThresholdFor(a2).kind = threshold.kind
                /\ threshold.kind = "num" => ThresholdLeq(threshold, ThresholdFor(a2))
                /\ Len(ChunksOf(distances, sentences, ThresholdFor(a2))) <= Len(chunks)

\* a larger amount that gives a higher threshold and fewer chunks
C6_Witness ==
    /\ pc = "done"
    /\ threshold.kind = "num"
    /\ \E a2 \in Amounts(breakpoint_threshold_type) :
           /\ AmountLeq(breakpoint_threshold_amount[1], a2)
           /\ ~ ThresholdLeq(ThresholdFor(a2), threshold)
           /\ Len(ChunksOf(distances, sentences, ThresholdFor(a2))) < Len(chunks)

\* the scenario: four sentences, distances [0.1, 0.9, 0.15], percentile, 95
C8_Case ==
    /\ pc = "done"
    /\ distances = <<10, 90, 15>>
    /\ breakpoint_threshold_type = "percentile"
    /\ breakpoint_threshold_amount = <<Amount(95, 1)>>

C8_Cut ==
    /\ indices_above_thresh(distances, threshold) = <<1>>
    /\ Len(chunks) = 2
    /\ [k \in 1..Len(Groups) |-> Indices(Groups[k])] = <<<<0, 1>>, <<2, 3>>>>

\* C8 as it was claimed: the threshold is about 0.87 (here: within 0.01 of it),
\* the only breakpoint is index 1 and the chunks are sentences [0,1] and [2,3].
C8_Original ==
    C8_Case =>
        /\ threshold.kind = "num"
        /\ threshold.q = 0
        /\ 86 * threshold.d < threshold.p
        /\ threshold.p < 88 * threshold.d
        /\ C8_Cut

\* C8, amended: the threshold is 0.825 (0.15 + 0.9 * (0.9 - 0.15)), the only
\* breakpoint is index 1 and the chunks are sentences [0,1] and [2,3].
C8_Scenario ==
    C8_Case =>
        /\ threshold.kind = "num"
        /\ threshold.q = 0
        /\ 10 * threshold.p = 825 * threshold.d
        /\ C8_Cut

C8_Witness == C8_Case /\ chunks = <<JoinSpace(Values(SubSeq(sentences, 1, 2))),
                                    JoinSpace(Values(SubSeq(sentences, 3, 4)))>>

\* ================================================================ _combine_sentences
\* _combine_sentences called with any sentences and any buffer_size >= 0, or by
\* try_chunk on a constructed chunker.
InitWindow ==
    /\ NoListener
    /\ NoMemoryTest
    /\ breakpoint_threshold_type \in ThresholdTypes
    /\ breakpoint_threshold_amount = <<BREAKPOINT_DEFAULTS[breakpoint_threshold_type]>>
    /\ amount_arg = <<>>
    /\ embedding_driver = "by_length"
    /\ numpy_empty_percentile = "nan"
    /\ \/ /\ pc = "combine"
          /\ sentences \in SentenceLists
          /\ buffer_size \in 0..MaxBuffer
       \/ /\ pc = "idle"
          /\ sentences = <<>>
          /\ buffer_size = 1
    /\ text = <<>>
    /\ distances = <<>>
    /\ threshold = NoThreshold
    /\ chunks = <<>>
    /\ error = None
    /\ trace = <<>>
    /\ remembered = NoRemembered

NextWindow ==
    \/ \E t \in InputTexts : TryChunk(t)
    \/ TextToSentences
    \/ CombineSentences

SpecWindow == InitWindow /\ [][NextWindow]_vars

\* the window of sentence i (0-based): sentences max(0, i-b) .. min(N-1, i+b)
Window(sents, i, b) == SubSeq(Values(sents), Max(0, i - b) + 1, Min(Len(sents) - 1, i + b) + 1)

WindowsCorrect ==
    \A k \in 1..Len(sentences) :
        /\ sentences[k].combined_sentence = <<JoinSpace(Window(sentences, k - 1, buffer_size))>>
        /\ Head(sentences[k].combined_sentence[1]) # " "
        /\ sentences[k].combined_sentence[1][Len(sentences[k].combined_sentence[1])] # " "

\* C7: after _combine_sentences(sentences, b) the combined text of sentence i is
\* the space-joined raw texts of sentences max(0, i-b) .. min(N-1, i+b), with no
\* space before or after; the call changes no raw text and no index; and
\* try_chunk makes the call with b = 1.
C7_Windowing ==
    /\ [](pc = "embed" => WindowsCorrect)
    /\ [][CombineSentences =>
            /\ Values(sentences') = Values(sentences)
            /\ Indices(sentences') = Indices(sentences)]_vars
    /\ [][TextToSentences => buffer_size' = 1]_vars

\* a window clipped at both ends of the list, and one that is not the whole list
C7_Witness ==
    /\ pc = "embed"
    /\ buffer_size = MaxBuffer
    /\ Len(sentences) = MaxSentences
    /\ sentences[1].combined_sentence # sentences[2].combined_sentence
    /\ Len(sentences[2].combined_sentence[1]) = Len(JoinSpace(Values(sentences)))

\* ================================================================ split_into_sentences
\* split_into_sentences called (through _text_to_sentences) with texts of up to
\* MaxWords words, one space between, and with the text of the scenario.
Honorifics == {<<"M", "r", ".">>, <<"M", "r", "s", ".">>, <<"M", "s", ".">>, <<"D", "r", ".">>, <<"S", "t", ".">>}
Acronyms == {<<"A", ".", "I", ".">>}
Vocabulary ==
    Honorifics \cup Acronyms \cup {<<"H", "e">>, <<"e", "t", "h", "i", "c", "s">>, <<"t", "h", "e", "r", "e", ".">>,
                                 <<"A", "T", "M", "s", ".">>}

ExampleText ==
    <<"D", "r", ".", " ", "S", "m", "i", "t", "h", " ", "w", "e", "n", "t", " ", "t", "o",
      " ", "W", "a", "s", "h", "i", "n", "g", "t", "o", "n", ".", " ", "H", "e", " ", "m",
      "e", "t", " ", "M", "r", "s", ".", " ", "J", "o", "n", "e", "s", " ", "t", "h", "e",
      "r", "e", ".", " ", "T", "h", "e", "y", " ", "d", "i", "s", "c", "u", "s", "s", "e",
      "d", " ", "A", ".", "I", ".", " ", "e", "t", "h", "i", "c", "s", " ", "e", "x", "t",
      "e", "n", "s", "i", "v", "e", "l", "y", ".">>

ExampleSentences ==
    <<<<"D", "r", ".", " ", "S", "m", "i", "t", "h", " ", "w", "e", "n", "t", " ", "t", "o", " ", "W", "a", "s", "h", "i", "n", "g", "t", "o", "n", ".">>,
      <<"H", "e", " ", "m", "e", "t", " ", "M", "r", "s", ".", " ", "J", "o", "n", "e", "s", " ", "t", "h", "e", "r", "e", ".">>,
      <<"T", "h", "e", "y", " ", "d", "i", "s", "c", "u", "s", "s", "e", "d", " ", "A", ".", "I", ".", " ", "e", "t", "h", "i", "c", "s", " ", "e", "x", "t", "e", "n", "s", "i", "v", "e", "l", "y", ".">>>>

SplitInputs == {JoinSpace(ws) : ws \in SeqsUpTo(Vocabulary, MaxWords)} \cup {ExampleText}

InitSplit ==
    /\ NoListener
    /\ NoMemoryTest
    /\ breakpoint_threshold_type = "percentile"
    /\ breakpoint_threshold_amount = <<BREAKPOINT_DEFAULTS[breakpoint_threshold_type]>>
    /\ amount_arg = <<>>
    /\ embedding_driver = "by_length"
    /\ numpy_empty_percentile = "nan"
    /\ pc = "call"
    /\ text \in SplitInputs
    /\ buffer_size = 1
    /\ sentences = <<>>
    /\ distances = <<>>
    /\ threshold = NoThreshold
    /\ chunks = <<>>
    /\ error = None
    /\ trace = <<>>
    /\ remembered = NoRemembered

NextSplit == TextToSentences

SpecSplit == InitSplit /\ [][NextSplit]_vars

\* the words of a text
WordsOf(t) == IF t = <<>> THEN <<>> ELSE SplitOn(t, " ")

IsPrefix(a, b) == Len(a) <= Len(b) /\ SubSeq(b, 1, Len(a)) = a

\* the word begins what the splitter takes for the start of a sentence
StartsWithStarter(w) == \E j \in 1..Len(starters) : IsPrefix(starters[j], w \o <<" ">>)

\* the word ends with a period that belongs to no honorific and no acronym
EndsSentence(w) == w[Len(w)] = "." /\ w \notin Honorifics /\ w \notin Acronyms

\* the n-th smallest element of a set of numbers, 0 for n = 0
NthOf(B, n) == IF n = 0 THEN 0 ELSE CHOOSE i \in B : Cardinality({j \in B : j < i}) = n - 1

\* the sentences, when the words after which a sentence ends are those at B
SentencesEndingAt(ws, B) ==
    [n \in 1..Cardinality(B \cup (IF ws = <<>> THEN {} ELSE {Len(ws)})) |->
        JoinSpace(SubSeq(ws, NthOf(B \cup {Len(ws)}, n - 1) + 1, NthOf(B \cup {Len(ws)}, n)))]

Trimmed(sents) ==
    \A k \in 1..Len(sents) :
        /\ sents[k].sentence # <<>>
        /\ Head(sents[k].sentence) \notin Whitespace
        /\ sents[k].sentence[Len(sents[k].sentence)] \notin Whitespace

ExampleSplit ==
    text = ExampleText => (Values(sentences) = ExampleSentences /\ Len(sentences) = 3)

\* C9 as it was claimed, for the periods that end a sentence: after every word
\* that ends with a period belonging to no honorific and no acronym a sentence
\* ends, and the scenario text gives its 3 sentences, trimmed and not empty.
C9_SentenceFinal ==
    pc = "combine" =>
        /\ \A k \in 1..Len(WordsOf(text)) :
               EndsSentence(WordsOf(text)[k]) =>
                   \E n \in 1..Len(sentences) : \E j \in 1..k :
                       sentences[n].sentence = JoinSpace(SubSeq(WordsOf(text), j, k))
        /\ Trimmed(sentences)
        /\ ExampleSplit

IsSuffix(a, b) == Len(a) <= Len(b) /\ SubSeq(b, Len(b) - Len(a) + 1, Len(b)) = a

\* the word ends with one of the splitter's prefixes and a period
EndsWithPrefix(w) == \E j \in 1..Len(prefixes) : IsSuffix(prefixes[j] \o <<".">>, w)

\* What the splitter does on these texts: a sentence ends after a word that ends
\* with a period, unless the word is an acronym or ends with one of the prefixes,
\* and after an acronym when the next word begins with a sentence starter.
SplitterBreaks ==
    pc = "combine" =>
        /\ Values(sentences) =
               SentencesEndingAt(WordsOf(text),
                   {k \in 1..Len(WordsOf(text)) :
                       \/ /\ EndsSentence(WordsOf(text)[k])
                          /\ ~ EndsWithPrefix(WordsOf(text)[k])
                       \/ /\ WordsOf(text)[k] \in Acronyms
                          /\ k < Len(WordsOf(text))
                          /\ StartsWithStarter(WordsOf(text)[k + 1])})
        /\ Trimmed(sentences)
        /\ ExampleSplit

\* the scenario text gives its 3 sentences
ExampleReached ==
    /\ pc = "combine"
    /\ text = ExampleText
    /\ Len(sentences) = 3

\* ================================================================ conversation memory on disk
\* The steps of test_store and test_load, against a ConversationMemory with a
\* DiskConversationMemoryDriver and a Pipeline with a MockPromptDriver.
Prompts == {"test", "hello"}
MockOutput == "mock output"

Run(id, input, output) == [id |-> id, input |-> input, output |-> output]

\* memory.to_json(): the JSON text, as its sequence of tokens
RECURSIVE RunsToJson(_)
RunsToJson(runs) ==
    IF runs = <<>> THEN <<>>
    ELSE <<"{", "id", Head(runs).id, "input", Head(runs).input,
           "output", Head(runs).output, "}">> \o RunsToJson(Tail(runs))

\* faulty variant: only the run just added is written
LastRunToJson(runs) ==
    <<"{", "type", "ConversationMemory", "runs", "[">>
        \o RunsToJson(SubSeq(runs, Len(runs), Len(runs))) \o <<"]", "}">>

ToJson(runs) ==
    <<"{", "type", "ConversationMemory", "runs", "[">> \o RunsToJson(runs) \o <<"]", "}">>

\* ConversationMemory.from_json(text)
FromJson(json) ==
    [type |-> json[3],
     runs |-> [k \in 1..((Len(json) - 7) \div 8) |->
                  Run(json[5 + 8 * (k - 1) + 3], json[5 + 8 * (k - 1) + 5],
                      json[5 + 8 * (k - 1) + 7])]]

\* DiskConversationMemoryDriver.store(memory): the file it leaves
DiskStore(runs) == <<ToJson(runs)>>

\* DiskConversationMemoryDriver.load(): None (<<>>) if there is no file
DiskLoad(f) == IF f = <<>> THEN <<>> ELSE <<FromJson(f[1])>>

\* the fixture has removed the memory file
InitMemory ==
    /\ NoListener
    /\ breakpoint_threshold_type = "percentile"
    /\ breakpoint_threshold_amount = <<BREAKPOINT_DEFAULTS[breakpoint_threshold_type]>>
    /\ amount_arg = <<>>
    /\ embedding_driver = "by_length"
    /\ numpy_empty_percentile = "nan"
    /\ pc = "idle"
    /\ text = <<>>
    /\ buffer_size = 1
    /\ sentences = <<>>
    /\ distances = <<>>
    /\ threshold = NoThreshold
    /\ chunks = <<>>
    /\ error = None
    /\ trace = <<>>
    /\ remembered = NoRemembered
    /\ mpc = "start"
    /\ file = <<>>
    /\ memory_runs = <<>>
    /\ tasks = <<>>
    /\ new_memory = <<>>
    /\ run_history = <<>>

\* memory_driver = DiskConversationMemoryDriver(file_path=...)
NewDriver ==
    /\ mpc = "start"
    /\ mpc' = "driver"
    /\ UNCHANGED <<file, memory_runs, tasks, new_memory, run_history>>
    /\ UNCHANGED outsideMemory

\* memory = ConversationMemory(driver=memory_driver), with no file to load from
NewMemory ==
    /\ mpc = "driver"
    /\ DiskLoad(file) = <<>>
    /\ mpc' = "memory"
    /\ UNCHANGED <<file, memory_runs, tasks, new_memory, run_history>>
    /\ UNCHANGED outsideMemory

\* pipeline = Pipeline(prompt_driver=prompt_driver, memory=memory)
NewPipeline ==
    /\ mpc = "memory"
    /\ mpc' = "pipeline"
    /\ UNCHANGED <<file, memory_runs, tasks, new_memory, run_history>>
    /\ UNCHANGED outsideMemory

\* pipeline.add_task(PromptTask(prompt))
AddTask(prompt) ==
    /\ mpc \in {"pipeline", "loaded"}
    /\ Len(tasks) < MaxTasks
    /\ tasks' = Append(tasks, prompt)
    /\ mpc' = "pipeline"
    /\ UNCHANGED <<file, memory_runs, new_memory, run_history>>
    /\ UNCHANGED outsideMemory

\* pipeline.run(): the tasks run, then memory.add_run(Run(input of the first
\* task, output of the last)) appends the run and stores the memory
PipelineRun ==
    /\ mpc \in {"pipeline", "loaded"}
    /\ tasks # <<>>
    /\ Len(run_history) < MaxRuns
    /\ run_history' = Append(run_history, [input |-> tasks[1], output |-> MockOutput])
    /\ memory_runs' = Append(memory_runs,
                             Run(Len(run_history) + 1, tasks[1], MockOutput))
    /\ file' = DiskStore(memory_runs')
    /\ mpc' = "pipeline"
    /\ UNCHANGED <<tasks, new_memory>>
    /\ UNCHANGED outsideMemory

\* new_memory = memory_driver.load()
Load ==
    /\ mpc \in {"pipeline", "loaded"}
    /\ new_memory' = DiskLoad(file)
    /\ mpc' = "loaded"
    /\ UNCHANGED <<file, memory_runs, tasks, run_history>>
    /\ UNCHANGED outsideMemory

NextMemory ==
    \/ NewDriver
    \/ NewMemory
    \/ NewPipeline
    \/ \E prompt \in Prompts : AddTask(prompt)
    \/ PipelineRun
    \/ Load

SpecMemory == InitMemory /\ [][NextMemory]_vars

\* the memory carries the runs of the history, in order
Mirrors(memory, history) ==
    /\ memory.type = "ConversationMemory"
    /\ Len(memory.runs) = Len(history)
    /\ \A k \in 1..Len(history) :
           /\ memory.runs[k].input = history[k].input
           /\ memory.runs[k].output = history[k].output

\* C11: before the first run there is no memory file; after k >= 1 runs the
\* file exists and what load() returns from it has exactly the k runs, in
\* execution order, each with its input and output; and a load that has just
\* returned has returned that.
C11_Mirror ==
    /\ run_history = <<>> => file = <<>>
    /\ run_history # <<>> =>
           /\ DiskLoad(file) # <<>>
           /\ Mirrors(DiskLoad(file)[1], run_history)
    /\ (mpc = "loaded" /\ run_history # <<>>) =>
           /\ new_memory # <<>>
           /\ Mirrors(new_memory[1], run_history)

\* test_load: two runs of the task "test", then load()
C11_Witness ==
    /\ mpc = "loaded"
    /\ tasks = <<"test">>
    /\ Len(run_history) = 2
    /\ Len(new_memory[1].runs) = 2
    /\ new_memory[1].runs[1].input = "test"
    /\ new_memory[1].runs[1].output = "mock output"

\* ================================================================ BaseEventListenerDriver
\* publish_event submits _safe_try_publish_event(event) to the executor; each of
\* the executor's max_workers threads runs one submitted call at a time, and a
\* thread may be switched between any two steps below.
EventKinds == {"dict", "event", "broken"}   \* a dict, a BaseEvent, a BaseEvent whose to_dict() raises

Event(id, kind) == [id |-> id, kind |-> kind]

\* event.to_dict()
to_dict(event) == <<"payload", event.id>>

\* event if isinstance(event, dict) else event.to_dict()
PayloadOf(event) == IF event.kind = "dict" THEN <<"dict", event.id>> ELSE to_dict(event)

IdleWorker == [pc |-> "idle", event |-> <<>>, payload |-> <<>>, now |-> 0, ref |-> 0]

\* a driver with its defaults for _batch and _last_batch_time, on an executor
\* of n threads
NewListener(n) ==
    /\ batched \in BOOLEAN
    /\ batch_size \in 1..MaxBatchSize
    /\ batch_timeout \in BatchTimeouts
    /\ publisher \in {"reliable", "failing"}
    /\ max_workers = n
    /\ _batch = 1
    /\ heap = <<<<>>>>
    /\ _last_batch_time = 0
    /\ clock = 0
    /\ queue = <<>>
    /\ submitted = <<>>
    /\ workers = [w \in 1..n |-> IdleWorker]
    /\ published = <<>>
    /\ logged = 0
    /\ escaped = FALSE

listenerConfig == <<batched, batch_size, batch_timeout, publisher, max_workers>>

\* the worker goes on at pc p
At(w, p) == workers' = [workers EXCEPT ![w].pc = p]

\* faulty variant: there is no try/except, the exception leaves the call
RaiseUncaught(w) ==
    /\ workers' = [workers EXCEPT ![w] = IdleWorker]
    /\ escaped' = TRUE

\* an exception is raised inside the try block (lines 37-49)
Raise(w) ==
    /\ At(w, "log")
    /\ UNCHANGED escaped

\* time passes
Tick ==
    /\ clock < MaxClock
    /\ clock' = clock + 1
    /\ UNCHANGED <<outsideListener, listenerConfig, _batch, heap, _last_batch_time, queue, submitted, workers,
                   published, logged, escaped>>

\* publish_event(event)
publish_event(kind) ==
    /\ Len(submitted) < MaxEvents
    /\ submitted' = Append(submitted, Event(Len(submitted) + 1, kind))
    /\ queue' = Append(queue, Event(Len(submitted) + 1, kind))
    /\ UNCHANGED <<outsideListener, listenerConfig, _batch, heap, _last_batch_time, clock, workers, published,
                   logged, escaped>>

\* an idle thread of the executor takes the next submitted call
StartCall(w) ==
    /\ workers[w].pc = "idle"
    /\ queue # <<>>
    /\ workers' = [workers EXCEPT ![w] = [IdleWorker EXCEPT !.pc = "convert",
                                                            !.event = <<Head(queue)>>]]
    /\ queue' = Tail(queue)
    /\ UNCHANGED <<outsideListener, listenerConfig, _batch, heap, _last_batch_time, clock, submitted, published,
                   logged, escaped>>

\* line 38, then the branch of line 40
Convert(w) ==
    /\ workers[w].pc = "convert"
    /\ IF workers[w].event[1].kind = "broken"
       THEN Raise(w)
       ELSE /\ workers' = [workers EXCEPT
                             ![w].payload = <<PayloadOf(workers[w].event[1])>>,
                             ![w].pc = IF batched THEN "load" ELSE "single"]
            /\ UNCHANGED escaped
    /\ UNCHANGED <<outsideListener, listenerConfig, _batch, heap, _last_batch_time, clock, queue, submitted,
                   published, logged>>

\* line 41: self._batch is read
LoadBatch(w) ==
    /\ workers[w].pc = "load"
    /\ workers' = [workers EXCEPT ![w].ref = _batch, ![w].pc = "append"]
    /\ UNCHANGED <<outsideListener, listenerConfig, _batch, heap, _last_batch_time, clock, queue, submitted,
                   published, logged, escaped>>

\* line 41: .append(event_payload) on the list that was read
AppendPayload(w) ==
    /\ workers[w].pc = "append"
    /\ heap' = [heap EXCEPT ![workers[w].ref] = Append(@, workers[w].payload[1])]
    /\ At(w, "now")
    /\ UNCHANGED <<outsideListener, listenerConfig, _batch, _last_batch_time, clock, queue, submitted,
                   published, logged, escaped>>

\* line 42: now = time.time()
ReadTime(w) ==
    /\ workers[w].pc = "now"
    /\ workers' = [workers EXCEPT ![w].now = clock, ![w].pc = "check"]
    /\ UNCHANGED <<outsideListener, listenerConfig, _batch, heap, _last_batch_time, clock, queue, submitted,
                   published, logged, escaped>>

\* faulty variant: a full batch is not yet due
FlushDueStrict(len, now, last) == len > batch_size \/ now - last >= batch_timeout

\* the condition of line 43
FlushDue(len, now, last) == len >= batch_size \/ now - last >= batch_timeout

\* line 43, and the return of line 47 when no flush is due
CheckFlush(w) ==
    /\ workers[w].pc = "check"
    /\ IF FlushDue(Len(heap[_batch]), workers[w].now, _last_batch_time)
       THEN At(w, "publish")
       ELSE workers' = [workers EXCEPT ![w] = IdleWorker]
    /\ UNCHANGED <<outsideListener, listenerConfig, _batch, heap, _last_batch_time, clock, queue, submitted,
                   published, logged, escaped>>

\* a call of one of the two abstract publish methods, as the log keeps it
Published(kind, payloads, outcome) ==
    [kind |-> kind, payloads |-> payloads, outcome |-> outcome,
     pending |-> heap[_batch], last_batch_time |-> _last_batch_time]

\* line 44: try_publish_event_payload_batch(self._batch) returns or raises
PublishBatch(w) ==
    /\ workers[w].pc = "publish"
    /\ \E ok \in (IF publisher = "reliable" THEN {TRUE} ELSE BOOLEAN) :
           /\ published' = Append(published,
                                  Published("batch", heap[_batch],
                                            IF ok THEN "ok" ELSE "raised"))
           /\ IF ok THEN At(w, "settime") /\ UNCHANGED escaped ELSE Raise(w)
    /\ UNCHANGED <<outsideListener, listenerConfig, _batch, heap, _last_batch_time, clock, queue, submitted,
                   logged>>

\* line 45: self._last_batch_time = now
SetLastBatchTime(w) ==
    /\ workers[w].pc = "settime"
    /\ _last_batch_time' = workers[w].now
    /\ At(w, "reset")
    /\ UNCHANGED <<outsideListener, listenerConfig, _batch, heap, clock, queue, submitted, published, logged,
                   escaped>>

\* line 46: self._batch = [], a new list; then the return of line 47
ResetBatch(w) ==
    /\ workers[w].pc = "reset"
    /\ heap' = Append(heap, <<>>)
    /\ _batch' = Len(heap) + 1
    /\ workers' = [workers EXCEPT ![w] = IdleWorker]
    /\ UNCHANGED <<outsideListener, listenerConfig, _last_batch_time, clock, queue, submitted, published,
                   logged, escaped>>

\* line 49: try_publish_event_payload(event_payload) returns or raises
PublishSingle(w) ==
    /\ workers[w].pc = "single"
    /\ \E ok \in (IF publisher = "reliable" THEN {TRUE} ELSE BOOLEAN) :
           /\ published' = Append(published,
                                  Published("single", <<workers[w].payload[1]>>,
                                            IF ok THEN "ok" ELSE "raised"))
           /\ IF ok
              THEN workers' = [workers EXCEPT ![w] = IdleWorker] /\ UNCHANGED escaped
              ELSE Raise(w)
    /\ UNCHANGED <<outsideListener, listenerConfig, _batch, heap, _last_batch_time, clock, queue, submitted,
                   logged>>

\* lines 50-51: except Exception as e: logger.error(e)
LogError(w) ==
    /\ workers[w].pc = "log"
    /\ logged' = logged + 1
    /\ workers' = [workers EXCEPT ![w] = IdleWorker]
    /\ UNCHANGED <<outsideListener, listenerConfig, _batch, heap, _last_batch_time, clock, queue, submitted,
                   published, escaped>>

\* publish_event calls, the clock, and the steps of _safe_try_publish_event on
\* the executor's threads
NextListener ==
    \/ Tick
    \/ \E kind \in EventKinds : publish_event(kind)
    \/ \E w \in 1..max_workers : StartCall(w)
    \/ \E w \in 1..max_workers : Convert(w)
    \/ \E w \in 1..max_workers : LoadBatch(w)
    \/ \E w \in 1..max_workers : AppendPayload(w)
    \/ \E w \in 1..max_workers : ReadTime(w)
    \/ \E w \in 1..max_workers : CheckFlush(w)
    \/ \E w \in 1..max_workers : PublishBatch(w)
    \/ \E w \in 1..max_workers : SetLastBatchTime(w)
    \/ \E w \in 1..max_workers : ResetBatch(w)
    \/ \E w \in 1..max_workers : PublishSingle(w)
    \/ \E w \in 1..max_workers : LogError(w)

ChunkerAtRest ==
    /\ breakpoint_threshold_type = "percentile"
    /\ breakpoint_threshold_amount = <<BREAKPOINT_DEFAULTS[breakpoint_threshold_type]>>
    /\ amount_arg = <<>>
    /\ embedding_driver = "by_length"
    /\ numpy_empty_percentile = "nan"
    /\ pc = "idle"
    /\ text = <<>>
    /\ buffer_size = 1
    /\ sentences = <<>>
    /\ distances = <<>>
    /\ threshold = NoThreshold
    /\ chunks = <<>>
    /\ error = None
    /\ trace = <<>>
    /\ remembered = NoRemembered

\* events are processed one at a time: an executor of one thread
InitListener ==
    /\ ChunkerAtRest
    /\ NoMemoryTest
    /\ NewListener(1)

SpecListener == InitListener /\ [][NextListener]_vars

\* ---------------------------------------------------------------- several threads
\* the default batch_timeout and publish methods that do not raise
InitConcurrent ==
    /\ ChunkerAtRest
    /\ NoMemoryTest
    /\ NewListener(Threads)
    /\ batch_timeout = 1
    /\ publisher = "reliable"

SpecConcurrent == InitConcurrent /\ [][NextListener]_vars

\* every submitted call has returned
Quiescent ==
    /\ queue = <<>>
    /\ \A w \in 1..max_workers : workers[w].pc = "idle"

Occurrences(seq, x) == Cardinality({i \in DOMAIN seq : seq[i] = x})

RECURSIVE TimesHanded(_, _, _)
\* how many times payload x is in the batches handed to the publish methods
\* by the first n calls
TimesHanded(calls, n, x) ==
    IF n = 0 THEN 0
    ELSE Occurrences(calls[n].payloads, x) + TimesHanded(calls, n - 1, x)

\* C13 as it was claimed: in batched mode with a publisher that does not fail,
\* once every submitted call has returned each payload is in exactly one
\* published batch or still in the pending _batch, once.
C13_ExactlyOnce ==
    (batched /\ publisher = "reliable" /\ Quiescent) =>
        \A k \in 1..Len(submitted) :
            submitted[k].kind # "broken" =>
                TimesHanded(published, Len(published), PayloadOf(submitted[k]))
                    + Occurrences(heap[_batch], PayloadOf(submitted[k])) = 1

\* ---------------------------------------------------------------- one thread
\* the payloads of the submitted events that convert, in submission order
RECURSIVE PayloadsOf(_)
PayloadsOf(events) ==
    IF events = <<>> THEN <<>>
    ELSE (IF Head(events).kind = "broken" THEN <<>> ELSE <<PayloadOf(Head(events))>>)
             \o PayloadsOf(Tail(events))

\* the payloads handed over by the calls that returned, one after the other
RECURSIVE Delivered(_)
Delivered(calls) ==
    IF calls = <<>> THEN <<>>
    ELSE (IF Head(calls).outcome = "ok" THEN Head(calls).payloads ELSE <<>>)
             \o Delivered(Tail(calls))

LastPublished == published[Len(published)]

\* C14: no exception leaves _safe_try_publish_event; while a batch publish that
\* raised is the last publish call, _batch still starts with the payloads that
\* were offered (ending, when the call is at its except clause, with the payload
\* it appended) and _last_batch_time is what it was; and the publish call after
\* one that raised is offered the same payloads again, first and in order.
C14_Contained ==
    /\ ~ escaped
    /\ (batched /\ published # <<>> /\ LastPublished.outcome = "raised") =>
           /\ IsPrefix(LastPublished.payloads, heap[_batch])
           /\ _last_batch_time = LastPublished.last_batch_time
           /\ (workers[1].pc = "log" /\ workers[1].payload # <<>>) =>
                  /\ heap[_batch] = LastPublished.payloads
                  /\ heap[_batch][Len(heap[_batch])] = workers[1].payload[1]
    /\ batched =>
           \A j \in 1..(Len(published) - 1) :
               published[j].outcome = "raised" =>
                   IsPrefix(published[j].payloads, published[j + 1].payloads)

\* a batch publish raised, was logged, and the next flush offered its payloads
\* again together with a later one
C14_Witness ==
    /\ batched
    /\ Len(published) = 2
    /\ published[1].outcome = "raised"
    /\ published[2].outcome = "ok"
    /\ Len(published[2].payloads) > Len(published[1].payloads)
    /\ logged >= 1
    /\ Quiescent

\* what holds of the batched driver in every state
BatchingState ==
    (batched /\ publisher = "reliable") =>
        /\ workers[1].pc = "idle" => Len(heap[_batch]) < batch_size
        /\ workers[1].pc = "publish" =>
               \/ Len(heap[_batch]) >= batch_size
               \/ workers[1].now - _last_batch_time >= batch_timeout
        /\ Quiescent => Delivered(published) \o heap[_batch] = PayloadsOf(submitted)
        /\ \A j \in 1..Len(published) :
               /\ published[j].kind = "batch"
               /\ published[j].payloads = published[j].pending
               /\ published[j].payloads # <<>>

\* and of every step of a call
BatchingStep ==
    (batched /\ publisher = "reliable") =>
        /\ (workers[1].pc = "check" /\ workers'[1].pc # "check") =>
               (workers'[1].pc = "publish"
                    <=> (\/ Len(heap[_batch]) >= batch_size
                         \/ workers[1].now - _last_batch_time >= batch_timeout))
        /\ (workers[1].pc = "check" /\ workers'[1].pc \notin {"check", "publish"}) =>
               /\ workers'[1].pc = "idle"
               /\ UNCHANGED <<_batch, heap, _last_batch_time, published>>
        /\ (workers[1].pc = "reset" /\ workers'[1].pc = "idle") =>
               /\ heap'[_batch'] = <<>>
               /\ _last_batch_time' = workers[1].now

\* one try_publish_event_payload call per payload, _batch untouched
UnbatchedCalls(events) ==
    /\ Len(published) = Len(events)
    /\ \A j \in 1..Len(published) :
           /\ published[j].kind = "single"
           /\ published[j].payloads = <<PayloadOf(events[j])>>
    /\ heap = <<<<>>>>
    /\ _batch = 1
    /\ _last_batch_time = 0

Converting(events) == SelectSeq(events, LAMBDA e : e.kind # "broken")

\* C15 as it was claimed, for batched = False: once the submitted events were
\* processed, each of them caused exactly one try_publish_event_payload call
\* and _batch is unchanged.
C15_Unbatched ==
    (~ batched /\ Quiescent) => UnbatchedCalls(submitted)

\* C15, amended: one thread, a batch publisher that does not fail. Batched: a
\* call flushes exactly when, after its append, len(_batch) >= batch_size or
\* now - _last_batch_time >= batch_timeout; a flush hands over all pending
\* payloads, in submission order, and leaves _batch empty and _last_batch_time
\* = now; after every call len(_batch) < batch_size. Not batched: each event
\* that converts to a payload causes exactly one try_publish_event_payload call
\* and _batch is unchanged.
C15_Batching ==
    /\ [](BatchingState /\ ((~ batched /\ Quiescent) => UnbatchedCalls(Converting(submitted))))
    /\ [][BatchingStep]_vars

\* two flushes: one because the batch was full, with two payloads in
\* submission order, one because the timeout had passed
C15_Witness ==
    /\ batched
    /\ publisher = "reliable"
    /\ batch_size = 2
    /\ Quiescent
    /\ Len(published) = 2
    /\ \E j \in 1..2 :
           /\ Len(published[j].payloads) = 2
           /\ Len(published[3 - j].payloads) = 1
    /\ heap[_batch] = <<>>

====
